---------------------------- MODULE Spec2Model ----------------------------
(***************************************************************************)
(* The transformation-chain engines of src/Eh.py: the two OuroborosCompiler *)
(* variants and the three TransformationPipeline variants.  An engine is    *)
(* constructed from a list of steps (input label, output label, generator)  *)
(* and execute_generation drives a text through the chain for a bounded     *)
(* number of cycles.                                                        *)
(***************************************************************************)
EXTENDS Integers, Sequences, FiniteSets, TLC

(***************************************************************************)
(* Bounds of the model.                                                     *)
(***************************************************************************)
MaxChain == 3
MaxCycles == 2
MaxTextLen == 1
\* longest chain of an engine that two threads call at the same time
MaxConcChain == 2
\* the generators of the source keep the first 30 characters of their input;
\* the model keeps the first SnipLen
SnipLen == 1
\* threads incrementing one ThreadSafeCounter (10 in the source) and the
\* most increments each of them makes (1000 in the source)
NumThreads == 3
MaxIncs == 2
\* values the jitter random.random() * 0.5 is drawn from, spread over [0, 0.5)
JitterChoices == 3
\* longest queue of files the processing loop is given
MaxQueue == 3
\* keys a SafeCacheManager is given, and how many seconds past the expiry
\* limit its clock is followed
MaxKeys == 2
MaxLate == 1
\* longest list find_triplets_sum_zero is given, and the largest absolute
\* value in it
MaxNumbers == 4
MaxAbs == 2

(***************************************************************************)
(* Program constants.                                                       *)
(***************************************************************************)
START_LANG == "Ruby"
END_LANG == "Ruby"
SnippetMax == 50
\* ReliableAPIClient, times in milliseconds
MAX_RETRIES == 5
INITIAL_BACKOFF == 500
JitterBelow == 500
\* SafeCacheManager, seconds after which an entry is expired
EXPIRY == 300

Variants == {"OC1", "OC2", "TP1", "TP2", "TP3"}
Langs == {"Ruby", "Python", "Java"}
Alphabet == {"x", "\n"}

IsOC(v) == v \in {"OC1", "OC2"}
IsTP(v) == v \in {"TP1", "TP2", "TP3"}

Min(a, b) == IF a < b THEN a ELSE b

(***************************************************************************)
(* Text: a string is a sequence of one-character strings.                   *)
(***************************************************************************)
SeqsUpTo(S, n) == UNION {[1..k -> S] : k \in 0..n}

InitialTexts == SeqsUpTo(Alphabet, MaxTextLen)

IsSpace(c) == c \in {" ", "\n"}

RECURSIVE LStrip(_)
LStrip(s) == IF s = <<>> THEN <<>>
             ELSE IF IsSpace(Head(s)) THEN LStrip(Tail(s)) ELSE s

RECURSIVE RStrip(_)
RStrip(s) == IF s = <<>> THEN <<>>
             ELSE IF IsSpace(s[Len(s)]) THEN RStrip(SubSeq(s, 1, Len(s) - 1))
             ELSE s

\* str.strip()
Strip(s) == RStrip(LStrip(s))

\* s[:n]
Take(s, n) == SubSeq(s, 1, Min(Len(s), n))

\* position of the first line break of s, 0 when it has none
FirstBreak(s) ==
  IF \E i \in 1..Len(s) : s[i] = "\n"
  THEN CHOOSE i \in 1..Len(s) : s[i] = "\n" /\ \A j \in 1..(i - 1) : s[j] # "\n"
  ELSE 0

\* str.splitlines(): no empty last line after a final line break
RECURSIVE SplitLines(_)
SplitLines(s) ==
  IF s = <<>> THEN <<>>
  ELSE LET i == FirstBreak(s)
       IN IF i = 0 THEN <<s>>
          ELSE <<SubSeq(s, 1, i - 1)>> \o SplitLines(SubSeq(s, i + 1, Len(s)))

NA == <<"N", "/", "A">>
Dots == <<".", ".", ".">>

\* [line.strip() for line in code.splitlines() if line.strip()]
RECURSIVE NonEmptyStripped(_)
NonEmptyStripped(lines) ==
  IF lines = <<>> THEN <<>>
  ELSE IF Strip(Head(lines)) # <<>>
       THEN <<Strip(Head(lines))>> \o NonEmptyStripped(Tail(lines))
       ELSE NonEmptyStripped(Tail(lines))

\* _extract_first_line / extract_first_line
extract_first_line(code) ==
  IF code = <<>> THEN NA
  ELSE LET lines == NonEmptyStripped(SplitLines(code))
       IN IF lines # <<>> THEN lines[1] ELSE NA

(***************************************************************************)
(* Errors.                                                                  *)
(***************************************************************************)
NoError == [kind |-> "none", check |-> "none"]
Err(k, c) == [kind |-> k, check |-> c]

(***************************************************************************)
(* Generators: a fixed prefix, then the first characters of the stripped    *)
(* input, then "...".                                                       *)
(***************************************************************************)
Generators == {"ruby_to_python", "python_to_java", "closing_transformer"}

GeneratorPrefix(g) ==
  CASE g = "ruby_to_python" -> <<"P">>
    [] g = "python_to_java" -> <<"J">>
    [] g = "closing_transformer" -> <<"R">>

ApplyGenerator(g, code) == GeneratorPrefix(g) \o Take(Strip(code), SnipLen) \o <<".">>

GeneratorFor(out) ==
  CASE out = "Python" -> "ruby_to_python"
    [] out = "Java" -> "python_to_java"
    [] OTHER -> "closing_transformer"

\* TransformationStep tuples the caller can build
StepSet == {[input_lang |-> i, output_lang |-> o, generator |-> GeneratorFor(o)] :
              i \in Langs, o \in Langs}

Chains == SeqsUpTo(StepSet, MaxChain)

CycleBudgets == 0..MaxCycles

(***************************************************************************)
(* Construction.                                                            *)
(***************************************************************************)
\* the transition check looks at the first pair only
DiscontinuousFirstPair(c) == Len(c) >= 2 /\ c[1].output_lang # c[2].input_lang

\* some index i whose output label differs from the input label of i+1
Discontinuous(c) == \E i \in 1..(Len(c) - 1) : c[i].output_lang # c[i + 1].input_lang

\* OuroborosCompiler._validate_chain_integrity: contiguity only
ValidateIntegrityOC(c) ==
  IF Discontinuous(c) THEN Err("RuntimeError", "discontinuity") ELSE NoError

\* TransformationPipeline._validate_chain_integrity, first and second
\* variant: transitions first, then the start label (chain[0] is indexed)
ValidateIntegrityTP12(c) ==
  IF Discontinuous(c) THEN Err("RuntimeError", "discontinuity")
  ELSE IF Len(c) = 0 THEN Err("IndexError", "index")
  ELSE IF c[1].input_lang # START_LANG THEN Err("RuntimeError", "start")
  ELSE NoError

\* the third variant's integrity check without its transition loop
ValidateIntegrityTP3StartOnly(c) ==
  IF Len(c) = 0 THEN Err("IndexError", "index")
  ELSE IF c[1].input_lang # START_LANG THEN Err("RuntimeError", "start")
  ELSE NoError

\* TransformationPipeline._validate_chain_integrity, third variant: the
\* start label first, then the transitions
ValidateIntegrityTP3(c) ==
  IF Len(c) = 0 THEN Err("IndexError", "index")
  ELSE IF c[1].input_lang # START_LANG THEN Err("RuntimeError", "start")
  ELSE IF Discontinuous(c) THEN Err("RuntimeError", "discontinuity")
  ELSE NoError

\* a closure validation that accepts every chain
ValidateClosureTP12Skipped(c) == NoError

\* _validate_ouroboros_closure, first and second variant
ValidateClosureTP12(c) ==
  IF Len(c) = 0 THEN Err("IndexError", "index")
  ELSE IF c[Len(c)].output_lang # c[1].input_lang THEN Err("RuntimeError", "closure")
  ELSE NoError

\* a closure validation that compares nothing
ValidateClosureTP3Skipped(c) == NoError

\* _validate_ouroboros_closure, third variant
ValidateClosureTP3(c) ==
  IF Len(c) = 0 THEN Err("IndexError", "index")
  ELSE IF c[Len(c)].output_lang # START_LANG THEN Err("RuntimeError", "closure")
  ELSE NoError

\* the validators __init__ calls after storing the chain
Validate(v, c) ==
  IF IsOC(v) THEN ValidateIntegrityOC(c)
  ELSE IF v = "TP3"
       THEN (IF ValidateIntegrityTP3(c) # NoError THEN ValidateIntegrityTP3(c)
             ELSE ValidateClosureTP3(c))
       ELSE (IF ValidateIntegrityTP12(c) # NoError THEN ValidateIntegrityTP12(c)
             ELSE ValidateClosureTP12(c))

\* __init__ without its emptiness check
ConstructorUnguarded(v, t) == Validate(v, t)

\* __init__: the error it raises, NoError when the engine is built
Constructor(v, t) ==
  IF t = <<>> THEN Err("ValueError", "empty") ELSE Validate(v, t)

(***************************************************************************)
(* State.                                                                   *)
(***************************************************************************)
VARIABLES
  variant,            \* which class of the file the engine is
  pc,                 \* "new", "rejected", "idle", "loop", "inner", "return", "done", "raised"
  transformations,    \* the list handed to the constructor
  chain,              \* self.chain
  chain_length,       \* self.chain_length (TransformationPipeline only)
  error,              \* the exception raised by the last operation
  initial_code,       \* argument of the running or last call
  max_cycles,         \* argument of the running or last call
  current_code,
  current_language,
  history,
  cycles_run,
  cycle_num,
  step_index,
  successful_closure,
  result,             \* what the last call returned, NoResult while a call runs
  later,              \* the running or last call began after some call had returned
  applied,            \* generator applications made by the running/last call
  firstArgs,          \* arguments of the first call that returned
  firstResult,        \* result of the first call that returned
  other               \* the frame of a second thread calling the same engine

\* ThreadSafeCounter and the threads of its demonstration (src/Te76444st.py)
VARIABLES
  count,              \* self.count
  lock,               \* holder of self._lock: Unlocked, a thread or MainThread
  perThread,          \* increments each thread makes
  tpc,                \* per thread: "ready", "load", "store", "release", "finished"
  loaded,             \* per thread: the value of self.count it read
  remaining,          \* per thread: increment calls still to make
  mpc,                \* main thread: "join", "read", "release", "done"
  got                 \* what get_value returned, -1 before

\* ReliableAPIClient.fetch_data (src/Te76444st.py)
VARIABLES
  apc,                \* "idle", "request", "failed", "returned", "raised"
  attempt,            \* the loop variable of fetch_data
  made,               \* requests.get calls made
  slept,              \* the delays passed to time.sleep, in order
  response,           \* attempt whose response was returned, -1 if none
  exc                 \* attempt whose exception left fetch_data, -1 if none

\* the file-processing loop: runCycle and its interval timer (src/Eh.py 41-83)
VARIABLES
  isLive,             \* state.isLive
  isProcessing,       \* isProcessingRef.current
  currentIndex,       \* currentIndexRef.current
  queueLen,           \* queueRef.current.length; file k sits at index k - 1
  inflight,           \* the runCycle calls suspended at an await, oldest first
  processed,          \* the files whose processing has finished, in order
  lastRun             \* how the latest runCycle call went on from its first line

\* SafeCacheManager (src/Te76444st.py)
VARIABLES
  cache,              \* self.cache: per key (value, timestamp) or Absent
  now,                \* what time.time() returns
  cpc,                \* cleanup_expired: "idle", "scan", "delete", "raised"
  current_time,       \* local of cleanup_expired
  expired_keys,       \* local of cleanup_expired
  scanned,            \* keys the iteration over self.cache.items() has yielded
  snapshot            \* self.cache as it was when cleanup_expired was called

\* find_triplets_sum_zero (src/Te76444st.py); indices count from 0 as in
\* the source
VARIABLES
  given,              \* the list as the caller passed it
  numbers,            \* the list, sorted in place by the function
  fpc,                \* "sort", "outer", "inner", "done"
  fixed,              \* the loop variable i
  left,
  right,
  triplets            \* the local result

counterVars == <<count, lock, perThread, tpc, loaded, remaining, mpc, got>>
apiVars == <<apc, attempt, made, slept, response, exc>>
cycleVars == <<isLive, isProcessing, currentIndex, queueLen, inflight, processed,
               lastRun>>
cacheVars == <<cache, now, cpc, current_time, expired_keys, scanned, snapshot>>
tripletVars == <<given, numbers, fpc, fixed, left, right, triplets>>
progVars == <<counterVars, apiVars, cycleVars, cacheVars, tripletVars>>

engineVars == <<variant, transformations, chain, chain_length>>
localVars == <<initial_code, max_cycles, current_code, current_language, history,
               cycles_run, cycle_num, step_index, successful_closure>>
ghostVars == <<later, applied, firstArgs, firstResult>>
engineState == <<engineVars, pc, error, localVars, result, ghostVars, other>>
vars == <<engineState, progVars>>
\* what the statements of each program leave alone
notCounter == <<engineState, apiVars, cycleVars, cacheVars, tripletVars>>
notClient == <<engineState, counterVars, cycleVars, cacheVars, tripletVars>>
notCycle == <<engineState, counterVars, apiVars, cacheVars, tripletVars>>
notCache == <<engineState, counterVars, apiVars, cycleVars, tripletVars>>
notTriplets == <<engineState, counterVars, apiVars, cycleVars, cacheVars>>

NoResult == [none |-> TRUE]
NoArgs == [none |-> TRUE]

\* a frame of execute_generation as a record: no call made yet
FrameIdle ==
  [pc |-> "idle", initial_code |-> <<>>, max_cycles |-> 0,
   current_code |-> <<>>, current_language |-> "none", history |-> <<>>,
   cycles_run |-> 0, cycle_num |-> 0, step_index |-> 0,
   successful_closure |-> FALSE, result |-> NoResult, error |-> NoError]

\* the locals of a frame that has been left (the arguments are kept)
NoFrame ==
  /\ current_code' = <<>>
  /\ current_language' = "none"
  /\ history' = <<>>
  /\ cycles_run' = 0
  /\ cycle_num' = 0
  /\ step_index' = 0
  /\ successful_closure' = FALSE

Threads == 1..NumThreads
\* holders of the lock: no one, a thread of Threads, or the main thread
Unlocked == 0
MainThread == NumThreads + 1

\* ThreadSafeCounter(): count 0, lock free, no thread started
CounterNew ==
  /\ count = 0
  /\ lock = Unlocked
  /\ perThread = 0
  /\ tpc = [t \in Threads |-> "finished"]
  /\ loaded = [t \in Threads |-> 0]
  /\ remaining = [t \in Threads |-> 0]
  /\ mpc = "join"
  /\ got = -1

\* ReliableAPIClient(base_url): fetch_data not called
ClientNew ==
  /\ apc = "idle"
  /\ attempt = 0
  /\ made = 0
  /\ slept = <<>>
  /\ response = -1
  /\ exc = -1

\* the component is mounted: not live, nothing queued
CycleNew ==
  /\ isLive = FALSE
  /\ isProcessing = FALSE
  /\ currentIndex = 0
  /\ queueLen = 0
  /\ inflight = <<>>
  /\ processed = <<>>
  /\ lastRun = "none"

Keys == 1..MaxKeys
Absent == [absent |-> TRUE]

\* SafeCacheManager(): an empty cache
CacheNew ==
  /\ cache = [k \in Keys |-> Absent]
  /\ now = 0
  /\ cpc = "idle"
  /\ current_time = 0
  /\ expired_keys = <<>>
  /\ scanned = {}
  /\ snapshot = [k \in Keys |-> Absent]

\* find_triplets_sum_zero has not been called
TripletsNew ==
  /\ given = <<>>
  /\ numbers = <<>>
  /\ fpc = "sort"
  /\ fixed = 0
  /\ left = 0
  /\ right = 0
  /\ triplets = <<>>

\* the other programs of the repository have not been started
ProgramsNew == CounterNew /\ ClientNew /\ CycleNew /\ CacheNew /\ TripletsNew

\* no engine has been constructed
EngineNew ==
  /\ pc = "new"
  /\ transformations = <<>>
  /\ chain = <<>>
  /\ chain_length = 0
  /\ error = NoError
  /\ initial_code = <<>>
  /\ max_cycles = 0
  /\ current_code = <<>>
  /\ current_language = "none"
  /\ history = <<>>
  /\ cycles_run = 0
  /\ cycle_num = 0
  /\ step_index = 0
  /\ successful_closure = FALSE
  /\ result = NoResult
  /\ later = FALSE
  /\ applied = 0
  /\ firstArgs = NoArgs
  /\ firstResult = NoResult
  /\ other = FrameIdle

Init ==
  /\ variant \in Variants
  /\ EngineNew
  /\ ProgramsNew

(***************************************************************************)
(* __init__(transformations)                                                *)
(***************************************************************************)
\* a constructor that runs one cycle of the chain it accepts
ConstructEager(t) ==
  /\ pc = "new"
  /\ transformations' = t
  /\ error' = Constructor(variant, t)
  /\ IF Constructor(variant, t) = NoError
     THEN /\ chain' = t
          /\ chain_length' = (IF IsTP(variant) THEN Len(t) ELSE 0)
          /\ pc' = "idle"
          /\ applied' = Len(t)
     ELSE /\ chain' = <<>>
          /\ chain_length' = 0
          /\ pc' = "rejected"
          /\ applied' = 0
  /\ UNCHANGED <<variant, localVars, result, later, firstArgs, firstResult, other, progVars>>

Construct(t) ==
  /\ pc = "new"
  /\ transformations' = t
  /\ error' = Constructor(variant, t)
  /\ IF Constructor(variant, t) = NoError
     THEN /\ chain' = t
          /\ chain_length' = (IF IsTP(variant) THEN Len(t) ELSE 0)
          /\ pc' = "idle"
     ELSE /\ chain' = <<>>
          /\ chain_length' = 0
          /\ pc' = "rejected"
  /\ UNCHANGED <<variant, localVars, result, ghostVars, other, progVars>>

(***************************************************************************)
(* execute_generation(initial_code, max_cycles)                             *)
(***************************************************************************)
\* the list a call starts its history with
FreshHistoryShared ==
  IF firstResult = NoResult THEN <<>> ELSE firstResult.transformation_history

FreshHistory == <<>>

\* entry of the call: the locals before the loop
Call(code, budget) ==
  /\ pc \in {"idle", "done", "raised"}
  /\ later' = (firstArgs # NoArgs)
  /\ result' = NoResult
  /\ applied' = 0
  /\ error' = NoError
  /\ initial_code' = code
  /\ max_cycles' = budget
  /\ current_code' = code
  /\ current_language' = START_LANG
  /\ history' = FreshHistory
  /\ cycles_run' = 0
  /\ cycle_num' = 0
  /\ step_index' = 0
  /\ successful_closure' = FALSE
  /\ pc' = "loop"
  /\ UNCHANGED <<engineVars, firstArgs, firstResult, other, progVars>>

\* a range that yields one cycle more than the budget
MoreCyclesOffByOne == cycle_num < max_cycles + 1

\* the range of the outer loop is not exhausted
MoreCycles == cycle_num < max_cycles

\* the header of the outer loop: the next cycle, or the end of the range
BeginCycle ==
  /\ pc = "loop"
  /\ IF MoreCycles
     THEN /\ cycle_num' = cycle_num + 1
          /\ cycles_run' = cycle_num + 1
          /\ step_index' = 0
          /\ pc' = "inner"
     ELSE /\ pc' = "return"
          /\ UNCHANGED <<cycle_num, cycles_run, step_index>>
  /\ UNCHANGED <<engineVars, error, initial_code, max_cycles, current_code,
                 current_language, history, successful_closure, result, ghostVars,
                 other, progVars>>

\* a history entry recording the length of the text the step consumed
HistoryEntryStaleLength(v, step, code) ==
  IF v = "OC2"
  THEN [cycle |-> cycle_num, step |-> Len(history) + 1,
        input_lang |-> step.input_lang, output_lang |-> step.output_lang,
        code_fragment_length |-> Len(current_code)]
  ELSE [cycle |-> cycle_num, step_in_cycle |-> step_index + 1,
        input_lang |-> step.input_lang, output_lang |-> step.output_lang,
        code_length |-> Len(current_code)]

\* the history entry a step appends
HistoryEntry(v, step, code) ==
  IF v = "OC2"
  THEN [cycle |-> cycle_num, step |-> Len(history) + 1,
        input_lang |-> step.input_lang, output_lang |-> step.output_lang,
        code_fragment_length |-> Len(code)]
  ELSE [cycle |-> cycle_num, step_in_cycle |-> step_index + 1,
        input_lang |-> step.input_lang, output_lang |-> step.output_lang,
        code_length |-> Len(code)]

\* the defensive check raising the kind of the emptiness check
MismatchErrorValue(v) == Err("ValueError", "label_mismatch")

\* the exception of the defensive check
MismatchError(v) ==
  IF IsOC(v) THEN Err("RuntimeError", "label_mismatch")
  ELSE Err("SystemError", "label_mismatch")

\* the inner loop leaves a cycle after a step that returned to the start
CycleCompleteEarly ==
  step_index = Len(chain) \/ (step_index > 0 /\ current_language = START_LANG)

\* the inner loop has gone through every step of the chain
CycleComplete == step_index = Len(chain)

\* every step is given the text the call started with
StepInputInitial == initial_code

\* the text a step's transform is given
StepInput == current_code

\* a defensive check that never fires
LabelMismatchIgnored(step) == FALSE

\* the defensive check: the step does not take the current label
LabelMismatch(step) == step.input_lang # current_language

\* one pass of the inner loop body
Step ==
  /\ pc = "inner"
  /\ step_index < Len(chain)
  /\ LET step == chain[step_index + 1]
     IN IF LabelMismatch(step)
        THEN /\ error' = MismatchError(variant)
             /\ pc' = "raised"
             /\ NoFrame
             /\ UNCHANGED <<applied, initial_code, max_cycles>>
        ELSE /\ current_code' = ApplyGenerator(step.generator, StepInput)
             /\ current_language' = step.output_lang
             /\ history' = Append(history,
                   HistoryEntry(variant, step, ApplyGenerator(step.generator, StepInput)))
             /\ step_index' = step_index + 1
             /\ applied' = applied + 1
             /\ UNCHANGED <<pc, error, initial_code, max_cycles, cycles_run,
                            cycle_num, successful_closure>>
  /\ UNCHANGED <<engineVars, result, later, firstArgs, firstResult, other, progVars>>

\* a post-cycle check that never leaves the outer loop
ClosureBreaksNever(v) == FALSE

\* the post-cycle check decides to leave the outer loop
ClosureBreaks(v) ==
  IF v = "OC2" THEN current_language = END_LANG /\ cycle_num - 1 = 0
  ELSE current_language = START_LANG

\* a post-cycle check that resets the engine's chain_length
EndCycleResetsLength ==
  /\ pc = "inner"
  /\ CycleComplete
  /\ IF ClosureBreaks(variant)
     THEN /\ pc' = "return"
          /\ successful_closure' = (variant \in {"TP1", "TP2"})
     ELSE /\ pc' = "loop"
          /\ UNCHANGED successful_closure
  /\ chain_length' = 0
  /\ UNCHANGED <<variant, transformations, chain, error, initial_code, max_cycles,
                 current_code, current_language, history, cycles_run, cycle_num,
                 step_index, result, ghostVars, other, progVars>>

\* the inner loop is exhausted: the post-cycle check
EndCycle ==
  /\ pc = "inner"
  /\ CycleComplete
  /\ IF ClosureBreaks(variant)
     THEN /\ pc' = "return"
          /\ successful_closure' = (variant \in {"TP1", "TP2"})
     ELSE /\ pc' = "loop"
          /\ UNCHANGED successful_closure
  /\ UNCHANGED <<engineVars, error, initial_code, max_cycles, current_code,
                 current_language, history, cycles_run, cycle_num, step_index,
                 result, ghostVars, other, progVars>>

\* the initial_code_snippet of the result, or the error computing it raises
SnippetError(v) ==
  IF v = "OC1" /\ SplitLines(Strip(initial_code)) = <<>>
  THEN Err("IndexError", "snippet")
  ELSE NoError

Snippet(v) ==
  CASE v = "OC1" -> SplitLines(Strip(initial_code))[1]
    [] v = "OC2" -> Take(initial_code, SnippetMax) \o Dots
    [] v = "TP2" -> (IF Strip(initial_code) # <<>>
                     THEN SplitLines(Strip(initial_code))[1] ELSE NA)
    [] OTHER -> extract_first_line(initial_code)

\* the closure flag taken from the local that only the break sets
ClosureFlagLocal(v) == successful_closure

\* the closure flag of the result
ClosureFlag(v) ==
  IF v = "TP3" THEN current_language = START_LANG ELSE successful_closure

\* the value the return statement builds
BuildResult(v) ==
  IF IsOC(v)
  THEN [final_code |-> current_code,
        iterations_run |-> cycle_num,
        final_language |-> current_language,
        transformation_history |-> history,
        initial_code_snippet |-> Snippet(v)]
  ELSE [final_code |-> current_code,
        cycles_run |-> cycles_run,
        final_language |-> current_language,
        transformation_history |-> history,
        initial_code_snippet |-> Snippet(v),
        successful_closure |-> ClosureFlag(v)]

\* the error raised while the result is built
ReturnError(v) ==
  IF v = "OC2" /\ cycle_num = 0 THEN Err("UnboundLocalError", "cycle")
  ELSE SnippetError(v)

\* the return statement
Return ==
  /\ pc = "return"
  /\ IF ReturnError(variant) # NoError
     THEN /\ error' = ReturnError(variant)
          /\ pc' = "raised"
          /\ UNCHANGED <<result, firstArgs, firstResult>>
     ELSE /\ result' = BuildResult(variant)
          /\ pc' = "done"
          /\ error' = NoError
          /\ IF firstArgs = NoArgs
             THEN /\ firstArgs' = [initial_code |-> initial_code, max_cycles |-> max_cycles]
                  /\ firstResult' = BuildResult(variant)
             ELSE UNCHANGED <<firstArgs, firstResult>>
  /\ NoFrame
  /\ UNCHANGED <<engineVars, later, applied, initial_code, max_cycles, other, progVars>>

\* a caller constructs an engine from some list of steps
ConstructAny == pc = "new" /\ \E t \in Chains : Construct(t)

\* a caller calls execute_generation with some arguments
CallAny ==
  /\ pc \in {"idle", "done", "raised"}
  /\ \E code \in InitialTexts, budget \in CycleBudgets : Call(code, budget)

Next ==
  \/ ConstructAny
  \/ CallAny
  \/ BeginCycle
  \/ Step
  \/ EndCycle
  \/ Return

Spec == Init /\ [][Next]_vars


(***************************************************************************)
(* execute_generation on a frame record: the same statements as above, for *)
(* a call made by a second thread while the first one runs.                 *)
(***************************************************************************)
\* the locals before the loop
FrameCall(code, budget) ==
  [FrameIdle EXCEPT !.pc = "loop", !.initial_code = code, !.max_cycles = budget,
                    !.current_code = code, !.current_language = START_LANG]

\* the frame after return or raise: the locals are gone, the arguments kept
FrameLeft(f, p, err, res) ==
  [FrameIdle EXCEPT !.pc = p, !.initial_code = f.initial_code,
                    !.max_cycles = f.max_cycles, !.error = err, !.result = res]

\* the header of the outer loop
FrameBeginCycle(f) ==
  IF f.cycle_num < f.max_cycles
  THEN [f EXCEPT !.cycle_num = f.cycle_num + 1, !.cycles_run = f.cycle_num + 1,
                 !.step_index = 0, !.pc = "inner"]
  ELSE [f EXCEPT !.pc = "return"]

\* the history entry a step appends
FrameEntry(v, f, step, code) ==
  IF v = "OC2"
  THEN [cycle |-> f.cycle_num, step |-> Len(f.history) + 1,
        input_lang |-> step.input_lang, output_lang |-> step.output_lang,
        code_fragment_length |-> Len(code)]
  ELSE [cycle |-> f.cycle_num, step_in_cycle |-> f.step_index + 1,
        input_lang |-> step.input_lang, output_lang |-> step.output_lang,
        code_length |-> Len(code)]

\* one pass of the inner loop body, appending to the list h
FrameStep(v, c, f, h) ==
  LET step == c[f.step_index + 1]
      code == ApplyGenerator(step.generator, f.current_code)
  IN IF step.input_lang # f.current_language
     THEN FrameLeft(f, "raised", MismatchError(v), NoResult)
     ELSE [f EXCEPT !.current_code = code,
                    !.current_language = step.output_lang,
                    !.history = Append(h, FrameEntry(v, f, step, code)),
                    !.step_index = f.step_index + 1]

\* the post-cycle check
FrameEndCycle(v, f) ==
  IF (IF v = "OC2" THEN f.current_language = END_LANG /\ f.cycle_num - 1 = 0
      ELSE f.current_language = START_LANG)
  THEN [f EXCEPT !.pc = "return", !.successful_closure = (v \in {"TP1", "TP2"})]
  ELSE [f EXCEPT !.pc = "loop"]

\* initial_code_snippet
FrameSnippet(v, code) ==
  CASE v = "OC1" -> SplitLines(Strip(code))[1]
    [] v = "OC2" -> Take(code, SnippetMax) \o Dots
    [] v = "TP2" -> (IF Strip(code) # <<>> THEN SplitLines(Strip(code))[1] ELSE NA)
    [] OTHER -> extract_first_line(code)

\* the value the return statement builds
FrameResult(v, f) ==
  IF IsOC(v)
  THEN [final_code |-> f.current_code,
        iterations_run |-> f.cycle_num,
        final_language |-> f.current_language,
        transformation_history |-> f.history,
        initial_code_snippet |-> FrameSnippet(v, f.initial_code)]
  ELSE [final_code |-> f.current_code,
        cycles_run |-> f.cycles_run,
        final_language |-> f.current_language,
        transformation_history |-> f.history,
        initial_code_snippet |-> FrameSnippet(v, f.initial_code),
        successful_closure |-> (IF v = "TP3" THEN f.current_language = START_LANG
                                ELSE f.successful_closure)]

\* the return statement
FrameReturn(v, f) ==
  IF v = "OC2" /\ f.cycle_num = 0
  THEN FrameLeft(f, "raised", Err("UnboundLocalError", "cycle"), NoResult)
  ELSE IF v = "OC1" /\ SplitLines(Strip(f.initial_code)) = <<>>
  THEN FrameLeft(f, "raised", Err("IndexError", "snippet"), NoResult)
  ELSE FrameLeft(f, "done", NoError, FrameResult(v, f))

\* a call run from frame f to its end with nothing else running
RECURSIVE FrameRun(_, _, _)
FrameRun(v, c, f) ==
  CASE f.pc = "loop" -> FrameRun(v, c, FrameBeginCycle(f))
    [] f.pc = "inner" ->
         (IF f.step_index < Len(c)
          THEN FrameRun(v, c, FrameStep(v, c, f, f.history))
          ELSE FrameRun(v, c, FrameEndCycle(v, f)))
    [] f.pc = "return" -> FrameRun(v, c, FrameReturn(v, f))
    [] OTHER -> f

\* the second thread appends to a list it shares with the first thread
OtherHistoryShared == history

\* the list the second thread appends to: its own local
OtherHistory == other.history

seqVars == <<engineVars, pc, error, localVars, result, ghostVars>>

OtherCall ==
  /\ IsTP(variant) /\ pc \notin {"new", "rejected"}
  /\ Len(chain) <= MaxConcChain
  /\ other.pc = "idle"
  /\ \E code \in InitialTexts, budget \in CycleBudgets :
       other' = FrameCall(code, budget)
  /\ UNCHANGED <<seqVars, progVars>>

OtherBeginCycle ==
  /\ other.pc = "loop"
  /\ other' = FrameBeginCycle(other)
  /\ UNCHANGED <<seqVars, progVars>>

OtherStep ==
  /\ other.pc = "inner"
  /\ other.step_index < Len(chain)
  /\ other' = FrameStep(variant, chain, other, OtherHistory)
  /\ UNCHANGED <<seqVars, progVars>>

OtherEndCycle ==
  /\ other.pc = "inner"
  /\ other.step_index = Len(chain)
  /\ other' = FrameEndCycle(variant, other)
  /\ UNCHANGED <<seqVars, progVars>>

OtherReturn ==
  /\ other.pc = "return"
  /\ other' = FrameReturn(variant, other)
  /\ UNCHANGED <<seqVars, progVars>>

\* the first call on an engine
CallFirst ==
  /\ pc = "idle"
  /\ \E code \in InitialTexts, budget \in CycleBudgets : Call(code, budget)

\* the first thread's call on an engine two threads share
ConcCall ==
  /\ IsTP(variant)
  /\ Len(chain) <= MaxConcChain
  /\ CallFirst

NextConc ==
  \/ ConstructAny
  \/ ConcCall
  \/ BeginCycle
  \/ Step
  \/ EndCycle
  \/ Return
  \/ OtherCall
  \/ OtherBeginCycle
  \/ OtherStep
  \/ OtherEndCycle
  \/ OtherReturn

SpecConc == Init /\ [][NextConc]_vars

(***************************************************************************)
(* The caller keeps the list it passed to __init__: self.chain is that     *)
(* same list object, so the caller's transformations.pop() removes the    *)
(* last step of the engine's chain; chain_length keeps the length taken at *)
(* construction.  The caller makes one call.                               *)
(***************************************************************************)
CallerPops ==
  /\ pc \in {"idle", "done", "raised"}
  /\ transformations # <<>>
  /\ transformations' = SubSeq(transformations, 1, Len(transformations) - 1)
  /\ chain' = transformations'
  /\ UNCHANGED <<variant, chain_length, pc, error, localVars, result, ghostVars,
                 other, progVars>>

NextAlias ==
  \/ ConstructAny
  \/ CallerPops
  \/ CallFirst
  \/ BeginCycle
  \/ Step
  \/ EndCycle
  \/ Return

SpecAlias == Init /\ [][NextAlias]_vars

(***************************************************************************)
(* ThreadSafeCounter (src/Te76444st.py): NumThreads threads each call       *)
(* increment() perThread times, the main thread joins them and calls        *)
(* get_value().  self.count += 1 is a read of the attribute followed by a   *)
(* write, two steps another thread can come between.                        *)
(***************************************************************************)
InitCounter ==
  /\ variant = "TP3"
  /\ EngineNew
  /\ ClientNew
  /\ CycleNew
  /\ CacheNew
  /\ TripletsNew
  /\ count = 0
  /\ lock = Unlocked
  /\ perThread \in 1..MaxIncs
  /\ tpc = [t \in Threads |-> "ready"]
  /\ loaded = [t \in Threads |-> 0]
  /\ remaining = [t \in Threads |-> perThread]
  /\ mpc = "join"
  /\ got = -1

\* a lock that every thread can take at any time
LockFreeAlways == TRUE

\* threading.Lock.acquire succeeds only on an unlocked lock
LockFree == lock = Unlocked

\* increment: with self._lock (entry)
Acquire(t) ==
  /\ tpc[t] = "ready"
  /\ LockFree
  /\ lock' = t
  /\ tpc' = [tpc EXCEPT ![t] = "load"]
  /\ UNCHANGED <<notCounter, count, perThread, loaded, remaining, mpc, got>>

\* increment: self.count += 1, the read
Load(t) ==
  /\ tpc[t] = "load"
  /\ loaded' = [loaded EXCEPT ![t] = count]
  /\ tpc' = [tpc EXCEPT ![t] = "store"]
  /\ UNCHANGED <<notCounter, count, lock, perThread, remaining, mpc, got>>

\* increment: self.count += 1, the write
Store(t) ==
  /\ tpc[t] = "store"
  /\ count' = loaded[t] + 1
  /\ tpc' = [tpc EXCEPT ![t] = "release"]
  /\ UNCHANGED <<notCounter, lock, perThread, loaded, remaining, mpc, got>>

\* increment: with self._lock (exit), then the next iteration of the thread
Release(t) ==
  /\ tpc[t] = "release"
  /\ lock' = Unlocked
  /\ remaining' = [remaining EXCEPT ![t] = remaining[t] - 1]
  /\ tpc' = [tpc EXCEPT ![t] = IF remaining[t] = 1 THEN "finished" ELSE "ready"]
  /\ UNCHANGED <<notCounter, count, perThread, loaded, mpc, got>>

\* after every join: get_value, with self._lock (entry)
GetAcquire ==
  /\ mpc = "join"
  /\ \A t \in Threads : tpc[t] = "finished"
  /\ LockFree
  /\ lock' = MainThread
  /\ mpc' = "read"
  /\ UNCHANGED <<notCounter, count, perThread, tpc, loaded, remaining, got>>

\* get_value: return self.count (the value is read under the lock)
GetRead ==
  /\ mpc = "read"
  /\ got' = count
  /\ mpc' = "release"
  /\ UNCHANGED <<notCounter, count, lock, perThread, tpc, loaded, remaining>>

\* get_value: with self._lock (exit)
GetRelease ==
  /\ mpc = "release"
  /\ lock' = Unlocked
  /\ mpc' = "done"
  /\ UNCHANGED <<notCounter, count, perThread, tpc, loaded, remaining, got>>

AcquireAny == \E t \in Threads : Acquire(t)
LoadAny == \E t \in Threads : Load(t)
StoreAny == \E t \in Threads : Store(t)
ReleaseAny == \E t \in Threads : Release(t)

NextCounter ==
  \/ AcquireAny
  \/ LoadAny
  \/ StoreAny
  \/ ReleaseAny
  \/ GetAcquire
  \/ GetRead
  \/ GetRelease

\* the scheduler keeps running some thread that can run
SpecCounter == InitCounter /\ [][NextCounter]_vars /\ WF_vars(NextCounter)

(***************************************************************************)
(* ReliableAPIClient.fetch_data (src/Te76444st.py).  Every requests.get     *)
(* either yields a response that passes raise_for_status or raises a        *)
(* RequestException; a response and an exception are named by the attempt   *)
(* that produced them.                                                      *)
(***************************************************************************)
InitClient ==
  /\ variant = "TP3"
  /\ EngineNew
  /\ CounterNew
  /\ CycleNew
  /\ CacheNew
  /\ TripletsNew
  /\ ClientNew

\* the jitter random.random() * 0.5, in milliseconds
Jitters == {(k * (JitterBelow - 1)) \div (JitterChoices - 1) : k \in 0..(JitterChoices - 1)}

\* a backoff that grows by INITIAL_BACKOFF per attempt
BackoffLinear(a) == INITIAL_BACKOFF * (a + 1)

\* INITIAL_BACKOFF * (2 ** attempt)
Backoff(a) == INITIAL_BACKOFF * (2 ^ a)

\* fetch_data(endpoint) is called
Fetch ==
  /\ apc = "idle"
  /\ apc' = "request"
  /\ attempt' = 0
  /\ UNCHANGED <<notClient, made, slept, response, exc>>

\* requests.get and raise_for_status succeed: return response.json()
RequestSucceeds ==
  /\ apc = "request"
  /\ attempt < MAX_RETRIES
  /\ made' = made + 1
  /\ response' = attempt
  /\ apc' = "returned"
  /\ UNCHANGED <<notClient, attempt, slept, exc>>

\* requests.get or raise_for_status raises a RequestException
RequestFails ==
  /\ apc = "request"
  /\ attempt < MAX_RETRIES
  /\ made' = made + 1
  /\ apc' = "failed"
  /\ UNCHANGED <<notClient, attempt, slept, response, exc>>

\* the handler on the last attempt: raise
Reraise ==
  /\ apc = "failed"
  /\ attempt = MAX_RETRIES - 1
  /\ exc' = attempt
  /\ apc' = "raised"
  /\ UNCHANGED <<notClient, attempt, made, slept, response>>

\* the handler on an earlier attempt: time.sleep(delay), then the next attempt
SleepAndRetry ==
  /\ apc = "failed"
  /\ attempt # MAX_RETRIES - 1
  /\ \E j \in Jitters : slept' = Append(slept, Backoff(attempt) + j)
  /\ attempt' = attempt + 1
  /\ apc' = "request"
  /\ UNCHANGED <<notClient, made, response, exc>>

NextClient ==
  \/ Fetch
  \/ RequestSucceeds
  \/ RequestFails
  \/ Reraise
  \/ SleepAndRetry

SpecClient == InitClient /\ [][NextClient]_vars

(***************************************************************************)
(* The file-processing loop (src/Eh.py 41-83).  JavaScript runs one         *)
(* callback at a time: a runCycle call runs from its first line to its      *)
(* first await in one step, and goes on in a later step when the awaited    *)
(* promise settles.  The state is taken after indexing: the queue holds     *)
(* queueLen files, isIndexed and user are set.  The reducer behind          *)
(* dispatch is not part of the source: MARK_COMPLETE may or may not turn    *)
(* isLive off.                                                              *)
(***************************************************************************)
InitCycle ==
  /\ variant = "TP3"
  /\ EngineNew
  /\ CounterNew
  /\ ClientNew
  /\ CacheNew
  /\ TripletsNew
  /\ isLive = FALSE
  /\ isProcessing = FALSE
  /\ currentIndex = 0
  /\ queueLen \in 0..MaxQueue
  /\ inflight = <<>>
  /\ processed = <<>>
  /\ lastRun = "none"

\* handleMainButton while stopped and indexed: TOGGLE_LIVE; the effect then
\* sets the interval timer
Start ==
  /\ ~isLive
  /\ isLive' = TRUE
  /\ UNCHANGED <<notCycle, isProcessing, currentIndex, queueLen, inflight,
                 processed, lastRun>>

\* handleMainButton while live: TOGGLE_LIVE; the effect's cleanup clears the
\* timer
Stop ==
  /\ isLive
  /\ isLive' = FALSE
  /\ UNCHANGED <<notCycle, isProcessing, currentIndex, queueLen, inflight,
                 processed, lastRun>>

\* a guard that does not look at the processing flag
BusyNever == FALSE

\* the guard of runCycle: another call is processing
Busy == isProcessing

\* runCycle called by the effect or the timer while another call is
\* processing: it returns at its first line
RunCycleReturnsEarly ==
  /\ isLive
  /\ Busy
  /\ lastRun' = "returned early"
  /\ UNCHANGED <<notCycle, isLive, isProcessing, currentIndex, queueLen,
                 inflight, processed>>

\* runCycle finds no file at currentIndex: MARK_COMPLETE, flag cleared
RunCycleExhausted ==
  /\ isLive
  /\ ~Busy
  /\ currentIndex >= queueLen
  /\ isProcessing' = FALSE
  /\ isLive' \in {isLive, FALSE}
  /\ lastRun' = "exhausted"
  /\ UNCHANGED <<notCycle, currentIndex, queueLen, inflight, processed>>

\* runCycle sets the flag, reads its target and awaits processFile
RunCycleBegins ==
  /\ isLive
  /\ ~Busy
  /\ currentIndex < queueLen
  /\ isProcessing' = TRUE
  /\ inflight' = Append(inflight, [target |-> currentIndex + 1, at |-> "processFile"])
  /\ lastRun' = "processing"
  /\ UNCHANGED <<notCycle, isLive, currentIndex, queueLen, processed>>

\* the sequence q without its i-th element
Without(q, i) == SubSeq(q, 1, i - 1) \o SubSeq(q, i + 1, Len(q))

\* the finally block of the suspended call i, which ended with status st
Finally(i, st) ==
  /\ currentIndex' = currentIndex + 1
  /\ isProcessing' = FALSE
  /\ processed' = Append(processed, [file |-> inflight[i].target, status |-> st])
  /\ inflight' = Without(inflight, i)
  /\ UNCHANGED <<notCycle, isLive, queueLen, lastRun>>

\* processFile resolves with MUTATED: the call awaits setDoc
FileMutated ==
  \E i \in 1..Len(inflight) :
    /\ inflight[i].at = "processFile"
    /\ inflight' = [inflight EXCEPT ![i].at = "setDoc"]
    /\ UNCHANGED <<notCycle, isLive, isProcessing, currentIndex, queueLen,
                   processed, lastRun>>

\* setDoc settles (its rejection is swallowed): the finally block runs
SetDocSettles ==
  \E i \in 1..Len(inflight) :
    /\ inflight[i].at = "setDoc"
    /\ Finally(i, "MUTATED")

\* processFile resolves with SKIPPED or rejects: the finally block runs
FileSkippedOrThrew ==
  \E i \in 1..Len(inflight) :
    /\ inflight[i].at = "processFile"
    /\ \E st \in {"SKIPPED", "threw"} : Finally(i, st)

NextCycle ==
  \/ Start
  \/ Stop
  \/ RunCycleReturnsEarly
  \/ RunCycleExhausted
  \/ RunCycleBegins
  \/ FileMutated
  \/ SetDocSettles
  \/ FileSkippedOrThrew

SpecCycle == InitCycle /\ [][NextCycle]_vars

(***************************************************************************)
(* SafeCacheManager (src/Te76444st.py), used by one thread.  Times are      *)
(* whole seconds; the clock moves between and during calls.  The iteration  *)
(* over self.cache.items() raises RuntimeError when the dictionary changed  *)
(* size since it began.                                                     *)
(***************************************************************************)
InitCache ==
  /\ variant = "TP3"
  /\ EngineNew
  /\ CounterNew
  /\ ClientNew
  /\ CycleNew
  /\ CacheNew
  /\ TripletsNew

Values == {"a", "b"}
\* the instants at which the clock is read: the first two seconds, and the
\* seconds from the expiry limit on
Instants == {0, 1} \cup {EXPIRY + d : d \in 0..MaxLate}

Present(c) == {k \in Keys : c[k] # Absent}

\* an entry as old as the limit counts as expired
ExpiredAtLimit(t, timestamp) == t - timestamp >= EXPIRY

\* current_time - timestamp > 300
Expired(t, timestamp) == t - timestamp > EXPIRY

\* time passes
Tick ==
  /\ \E t \in Instants : t > now /\ now' = t
  /\ UNCHANGED <<notCache, cache, cpc, current_time, expired_keys, scanned, snapshot>>

\* add(key, value)
Add ==
  /\ cpc = "idle"
  /\ \E k \in Keys, v \in Values :
       cache' = [cache EXCEPT ![k] = [value |-> v, timestamp |-> now]]
  /\ UNCHANGED <<notCache, now, cpc, current_time, expired_keys, scanned, snapshot>>

\* cleanup_expired is called: the locals before the first loop
CleanupCall ==
  /\ cpc = "idle"
  /\ cpc' = "scan"
  /\ current_time' = now
  /\ expired_keys' = <<>>
  /\ scanned' = {}
  /\ snapshot' = cache
  /\ UNCHANGED <<notCache, cache, now>>

\* one pass of the first loop, or its end
Scan ==
  /\ cpc = "scan"
  /\ IF Cardinality(Present(cache)) # Cardinality(Present(snapshot))
     THEN /\ cpc' = "raised"
          /\ UNCHANGED <<expired_keys, scanned>>
     ELSE IF Present(cache) \subseteq scanned
     THEN /\ cpc' = "delete"
          /\ UNCHANGED <<expired_keys, scanned>>
     ELSE \E k \in Present(cache) \ scanned :
            /\ scanned' = scanned \cup {k}
            /\ expired_keys' =
                 (IF Expired(current_time, cache[k].timestamp)
                  THEN Append(expired_keys, k) ELSE expired_keys)
            /\ UNCHANGED cpc
  /\ UNCHANGED <<notCache, cache, now, current_time, snapshot>>

\* one pass of the second loop: del self.cache[key], or the return
Delete ==
  /\ cpc = "delete"
  /\ IF expired_keys = <<>>
     THEN /\ cpc' = "idle"
          /\ UNCHANGED <<cache, expired_keys>>
     ELSE IF cache[Head(expired_keys)] = Absent
     THEN /\ cpc' = "raised"
          /\ UNCHANGED <<cache, expired_keys>>
     ELSE /\ cache' = [cache EXCEPT ![Head(expired_keys)] = Absent]
          /\ expired_keys' = Tail(expired_keys)
          /\ UNCHANGED cpc
  /\ UNCHANGED <<notCache, now, current_time, scanned, snapshot>>

NextCache ==
  \/ Tick
  \/ Add
  \/ CleanupCall
  \/ Scan
  \/ Delete

SpecCache == InitCache /\ [][NextCache]_vars

(***************************************************************************)
(* find_triplets_sum_zero(numbers) (src/Te76444st.py): one step for the     *)
(* sort, one per pass of the outer loop header, one per pass of the while   *)
(* loop.                                                                    *)
(***************************************************************************)
Numbers == (0 - MaxAbs)..MaxAbs

InitTriplets ==
  /\ variant = "TP3"
  /\ EngineNew
  /\ CounterNew
  /\ ClientNew
  /\ CycleNew
  /\ CacheNew
  /\ given \in SeqsUpTo(Numbers, MaxNumbers)
  /\ numbers = given
  /\ fpc = "sort"
  /\ fixed = 0
  /\ left = 0
  /\ right = 0
  /\ triplets = <<>>

\* q with x put before its first element greater than x
RECURSIVE Insert(_, _)
Insert(q, x) ==
  IF q = <<>> THEN <<x>>
  ELSE IF x <= Head(q) THEN <<x>> \o q
  ELSE <<Head(q)>> \o Insert(Tail(q), x)

\* list.sort(): ascending order
RECURSIVE SortAscending(_)
SortAscending(q) == IF q = <<>> THEN <<>> ELSE Insert(SortAscending(Tail(q)), Head(q))

\* numbers[k]
At(k) == numbers[k + 1]

\* while left < right and numbers[left] == numbers[left + 1]: left += 1
RECURSIVE SkipLeft(_, _)
SkipLeft(l, r) == IF l < r /\ At(l) = At(l + 1) THEN SkipLeft(l + 1, r) ELSE l

\* while left < right and numbers[right] == numbers[right - 1]: right -= 1
RECURSIVE SkipRight(_, _)
SkipRight(l, r) == IF l < r /\ At(r) = At(r - 1) THEN SkipRight(l, r - 1) ELSE r

\* numbers.sort(); n = len(numbers); result = []
SortNumbers ==
  /\ fpc = "sort"
  /\ numbers' = SortAscending(numbers)
  /\ triplets' = <<>>
  /\ fixed' = 0
  /\ fpc' = "outer"
  /\ UNCHANGED <<notTriplets, given, left, right>>

\* a fixed element is never taken for a repetition of the one before
RepeatsPreviousNever == FALSE

\* if i > 0 and numbers[i] == numbers[i-1]
RepeatsPrevious == fixed > 0 /\ At(fixed) = At(fixed - 1)

\* for i in range(n - 2): the header and the statements before the while
OuterLoop ==
  /\ fpc = "outer"
  /\ IF fixed >= Len(numbers) - 2 \/ At(fixed) > 0
     THEN /\ fpc' = "done"
          /\ UNCHANGED <<fixed, left, right>>
     ELSE IF RepeatsPrevious
     THEN /\ fixed' = fixed + 1
          /\ UNCHANGED <<fpc, left, right>>
     ELSE /\ left' = fixed + 1
          /\ right' = Len(numbers) - 1
          /\ fpc' = "inner"
          /\ UNCHANGED fixed
  /\ UNCHANGED <<notTriplets, given, numbers, triplets>>

\* while left < right: one pass, or the end of the loop
InnerLoop ==
  /\ fpc = "inner"
  /\ IF left >= right
     THEN /\ fixed' = fixed + 1
          /\ fpc' = "outer"
          /\ UNCHANGED <<left, right, triplets>>
     ELSE /\ UNCHANGED <<fixed, fpc>>
          /\ IF At(left) + At(right) = 0 - At(fixed)
             THEN /\ triplets' = Append(triplets, <<At(fixed), At(left), At(right)>>)
                  /\ left' = SkipLeft(left, right) + 1
                  /\ right' = SkipRight(SkipLeft(left, right), right) - 1
             ELSE IF At(left) + At(right) < 0 - At(fixed)
             THEN /\ left' = left + 1
                  /\ UNCHANGED <<right, triplets>>
             ELSE /\ right' = right - 1
                  /\ UNCHANGED <<left, triplets>>
  /\ UNCHANGED <<notTriplets, given, numbers>>

NextTriplets ==
  \/ SortNumbers
  \/ OuterLoop
  \/ InnerLoop

SpecTriplets == InitTriplets /\ [][NextTriplets]_vars

(***************************************************************************)
(* Properties.                                                              *)
(***************************************************************************)
\* cycles reported by a result (iterations_run in OuroborosCompiler)
RunCount(r) == IF IsOC(variant) THEN r.iterations_run ELSE r.cycles_run

Running == pc \in {"loop", "inner", "return"}

\* C1: a constructed TransformationPipeline never raises the label-mismatch
\* error: whenever a step is about to be taken, the current label is that
\* step's input label.
C1_NoLabelMismatch ==
  IsTP(variant) =>
    /\ error.check # "label_mismatch"
    /\ (pc = "inner" /\ step_index < Len(chain)) =>
         chain[step_index + 1].input_lang = current_language

C1_Witness ==
  /\ variant = "TP3" /\ pc = "inner" /\ Len(chain) = 3
  /\ step_index = 2 /\ cycle_num = 1 /\ current_language # START_LANG

\* C2: every returned result has cycles_run * N history entries, N the
\* length of the chain.
C2_HistoryLength ==
  pc = "done" =>
    Len(result.transformation_history) = RunCount(result) * Len(chain)

\* a result of a chain whose first step already returns to the start label
C2_Witness ==
  /\ pc = "done" /\ Len(chain) >= 2
  /\ chain[1].output_lang = START_LANG
  /\ RunCount(result) = 1
  /\ Len(result.transformation_history) = Len(chain)

\* C3 (as claimed): a TransformationPipeline call with max_cycles = 0 applies
\* no step and returns an empty history, cycles_run = 0, the initial text and
\* successful_closure = False.
C3_Claim ==
  (IsTP(variant) /\ pc = "done" /\ max_cycles = 0) =>
    /\ applied = 0
    /\ result.transformation_history = <<>>
    /\ result.cycles_run = 0
    /\ result.final_code = initial_code
    /\ result.successful_closure = FALSE

\* C4 (as claimed): construction from a chain whose last output label is not
\* the start label fails with a configuration error, no transform applied.
C4_Claim ==
  (/\ pc # "new"
   /\ transformations # <<>>
   /\ transformations[Len(transformations)].output_lang # START_LANG) =>
    /\ pc = "rejected"
    /\ error.kind \in {"ValueError", "RuntimeError"}
    /\ applied = 0

\* C5 (as claimed): construction from a non-empty chain whose first input
\* label is not the start label fails with a configuration error and builds
\* no engine.
C5_Claim ==
  (/\ pc # "new"
   /\ transformations # <<>>
   /\ transformations[1].input_lang # START_LANG) =>
    /\ pc = "rejected"
    /\ error.kind \in {"ValueError", "RuntimeError"}
    /\ chain = <<>>

\* C6: construction from a chain with a discontiguous adjacent pair fails
\* with a configuration error, whichever pair it is.
C6_DiscontinuityRejected ==
  (/\ pc # "new"
   /\ \E i \in 1..(Len(transformations) - 1) :
        transformations[i].output_lang # transformations[i + 1].input_lang) =>
    /\ pc = "rejected"
    /\ error.kind = "RuntimeError"
    /\ chain = <<>>

\* a rejected chain of three steps whose only flaw is its last pair
C6_Witness ==
  /\ pc = "rejected" /\ Len(transformations) = 3
  /\ transformations[1].input_lang = START_LANG
  /\ transformations[1].output_lang = transformations[2].input_lang
  /\ transformations[2].output_lang # transformations[3].input_lang
  /\ transformations[3].output_lang = START_LANG

\* C7: construction from an empty sequence fails with the emptiness error
\* and no other.
C7_EmptyRejected ==
  (pc # "new" /\ transformations = <<>>) =>
    /\ pc = "rejected"
    /\ error = Err("ValueError", "empty")

C7_Witness ==
  pc = "rejected" /\ transformations = <<>> /\ error.kind = "ValueError"

\* C8: on a constructed TransformationPipeline of N steps a call with
\* max_cycles = 1 returns successful_closure, cycles_run = 1, N history
\* entries and the start label as final language.
C8_OneCycleCloses ==
  (IsTP(variant) /\ pc = "done" /\ max_cycles = 1) =>
    /\ result.successful_closure = TRUE
    /\ result.cycles_run = 1
    /\ Len(result.transformation_history) = Len(chain)
    /\ result.final_language = START_LANG

\* Ruby -> Python -> Java -> Ruby run for one cycle
C8_Witness ==
  /\ variant = "TP3" /\ pc = "done" /\ max_cycles = 1
  /\ Len(chain) = 3
  /\ chain[1].output_lang = "Python" /\ chain[2].output_lang = "Java"
  /\ Len(result.transformation_history) = 3

\* C9: when a full cycle ends on the start label the call leaves the loop:
\* no further step, no further cycle, and the result reports that cycle and
\* (where the result has the flag) successful closure.
C9_StopsAtClosure ==
  [][ /\ (pc = "inner" /\ step_index = Len(chain) /\ current_language = START_LANG) =>
           /\ pc' = "return"
           /\ applied' = applied
           /\ cycle_num' = cycle_num
           /\ history' = history
      /\ (pc = "return" /\ cycle_num >= 1 /\ current_language = START_LANG) =>
           /\ pc' \in {"done", "raised"}
           /\ applied' = applied
           /\ (pc' = "done" =>
                 /\ RunCount(result') = cycle_num
                 /\ result'.transformation_history = history
                 /\ (IsTP(variant) => result'.successful_closure = TRUE))
    ]_vars

\* a call that closed in its first cycle with budget left
C9_Witness ==
  /\ pc = "done" /\ max_cycles = 2
  /\ RunCount(result) = 1
  /\ result.final_language = START_LANG
  /\ applied = Len(chain)

\* C10: a call's result depends only on the chain and its own arguments: a
\* call with the arguments of the first call returns the first call's
\* result, and the history holds exactly the entries of the steps this call
\* applied.
C10_CallsIndependent ==
  /\ (pc = "done" /\ firstArgs = [initial_code |-> initial_code, max_cycles |-> max_cycles]) =>
       result = firstResult
  /\ Running => Len(history) = applied
  /\ pc = "done" => Len(result.transformation_history) = applied

\* a later call repeating the arguments of the first
C10_Witness ==
  /\ pc = "done" /\ later /\ applied > 0
  /\ firstArgs = [initial_code |-> initial_code, max_cycles |-> max_cycles]

\* C11: two calls running at the same time on one engine each return what
\* they return when run alone, and a step of one call changes nothing of
\* the other call's frame.
C11_ConcurrentCallsIsolated ==
  /\ [](/\ pc = "done" =>
             result = FrameRun(variant, chain, FrameCall(initial_code, max_cycles)).result
        /\ other.pc = "done" =>
             other.result =
               FrameRun(variant, chain, FrameCall(other.initial_code, other.max_cycles)).result
        /\ pc # "raised" /\ other.pc # "raised")
  /\ [][ /\ other' # other => UNCHANGED <<pc, localVars, result, error>>
         /\ <<pc, localVars, result, error>>' # <<pc, localVars, result, error>> =>
              other' = other ]_vars

\* both calls in the middle of a cycle, on different texts
C11_Witness ==
  /\ pc = "inner" /\ other.pc = "inner"
  /\ step_index = 1 /\ other.step_index = 1
  /\ Len(chain) = 2
  /\ initial_code # other.initial_code

C13_Claim ==
  pc = "raised" => error.check = "label_mismatch"

\* C14 (as claimed): when the last permitted cycle has ended off the start
\* label, the call returns a result, without the closure flag set.
C14_Claim ==
  [][ (pc = "return" /\ cycle_num >= 1 /\ cycle_num = max_cycles
         /\ current_language # START_LANG) =>
        /\ pc' = "done"
        /\ error' = NoError
        /\ (IsTP(variant) => result'.successful_closure = FALSE)
    ]_vars

\* the step-within-cycle number and the text length an entry records
\* (named step and code_fragment_length in the second OuroborosCompiler)
EntryStep(e) == IF "step" \in DOMAIN e THEN e.step ELSE e.step_in_cycle

EntryLength(e) ==
  IF "code_fragment_length" \in DOMAIN e THEN e.code_fragment_length
  ELSE e.code_length

\* the text after k steps of the chain c, taken in chain order and cyclically
RECURSIVE TextAfter(_, _, _)
TextAfter(c, code, k) ==
  IF k = 0 THEN code
  ELSE ApplyGenerator(c[((k - 1) % Len(c)) + 1].generator, TextAfter(c, code, k - 1))

\* every entry of the log h is the record of the step at its position
EntriesInOrder(h) ==
  \A k \in 1..Len(h) :
    LET N == Len(chain)
        j == k - 1
    IN /\ h[k].cycle = (j \div N) + 1
       /\ EntryStep(h[k]) = (j % N) + 1
       /\ h[k].input_lang = chain[(j % N) + 1].input_lang
       /\ h[k].output_lang = chain[(j % N) + 1].output_lang
       /\ EntryLength(h[k]) = Len(TextAfter(chain, initial_code, k))

\* C15: the history has one entry per applied step, the k-th entry (from 0)
\* records cycle k div N + 1, step k mod N + 1, the labels of chain step
\* k mod N and the length of the text that step produced; while a call runs
\* the history only grows at its end, and the result carries it unchanged.
C15_HistoryLog ==
  /\ [](/\ Running => (Len(history) = applied /\ EntriesInOrder(history))
        /\ pc = "done" =>
             /\ Len(result.transformation_history) = applied
             /\ EntriesInOrder(result.transformation_history))
  /\ [][ /\ (Running /\ Running') =>
              /\ Len(history') >= Len(history)
              /\ SubSeq(history', 1, Len(history)) = history
         /\ (pc = "return" /\ pc' = "done") =>
              result'.transformation_history = history
     ]_vars

\* a three-step log returned by the second OuroborosCompiler
C15_Witness ==
  /\ variant = "OC2" /\ pc = "done"
  /\ Len(result.transformation_history) = 3

\* C16: each step consumes the text of the step before it, so the text after
\* the steps applied so far is the chain composed over the initial text; the
\* returned text is that composition taken cycles_run times and the returned
\* label is the output label of the last step applied.
C16_FinalText ==
  /\ Running => current_code = TextAfter(chain, initial_code, applied)
  /\ pc = "done" =>
       /\ applied = RunCount(result) * Len(chain)
       /\ result.final_code =
            TextAfter(chain, initial_code, RunCount(result) * Len(chain))
       /\ applied > 0 =>
            result.final_language =
              chain[((applied - 1) % Len(chain)) + 1].output_lang
       /\ applied = 0 => result.final_language = START_LANG

\* a result after one cycle over a chain of at least two steps
C16_Witness ==
  /\ pc = "done" /\ Len(chain) >= 2 /\ applied = Len(chain)
  /\ result.final_code # initial_code

\* progress of a running call: grows with every statement, bounded by
\* max_cycles * (N + 2) + 1
Measure ==
  CASE pc = "loop" -> cycle_num * (Len(chain) + 2)
    [] pc = "inner" -> (cycle_num - 1) * (Len(chain) + 2) + 1 + step_index
    [] pc = "return" -> max_cycles * (Len(chain) + 2) + 1
    [] OTHER -> 0

\* C17: a call applies at most max_cycles * N steps and reports at most
\* max_cycles cycles; every statement of a running call raises a measure
\* bounded by max_cycles * (N + 2) + 1 or leaves the call, so the call ends.
C17_Terminates ==
  /\ [](/\ (Running \/ pc = "done") => applied <= max_cycles * Len(chain)
        /\ pc = "done" => RunCount(result) <= max_cycles
        /\ Running => Measure <= max_cycles * (Len(chain) + 2) + 1)
  /\ [][ Running => (Running' => Measure' > Measure) ]_vars

\* a call that used its whole budget of steps
C17_Witness ==
  /\ pc = "done" /\ max_cycles >= 1 /\ Len(chain) >= 2
  /\ applied = max_cycles * Len(chain)

\* C18 (as claimed): in every state of a constructed TransformationPipeline
\* the chain is non-empty, starts at the start label, is contiguous and ends
\* at the start label, whatever the caller does with the list it passed.
C18_Claim ==
  (IsTP(variant) /\ pc \notin {"new", "rejected"}) =>
    /\ chain # <<>>
    /\ chain[1].input_lang = START_LANG
    /\ \A i \in 1..(Len(chain) - 1) : chain[i].output_lang = chain[i + 1].input_lang
    /\ chain[Len(chain)].output_lang = START_LANG

\* C19: a step whose input label differs from the current label ends the
\* call with the label-mismatch error at once: no transform is applied by
\* that statement, no result is set, and from the raised call nothing
\* follows but a new call, which starts with no step applied.
C19_MismatchRaisesAtOnce ==
  /\ [](error.check = "label_mismatch" => (pc = "raised" /\ result = NoResult))
  /\ [][ /\ (/\ pc = "inner"
             /\ step_index < Len(chain)
             /\ chain[step_index + 1].input_lang # current_language) =>
              /\ pc' = "raised"
              /\ error'.check = "label_mismatch"
              /\ applied' = applied
              /\ history' = <<>>
              /\ result' = NoResult
         /\ (pc = "raised" /\ pc' # "raised") =>
              (pc' = "loop" /\ applied' = 0 /\ cycle_num' = 0 /\ history' = <<>>)
     ]_vars

\* a TransformationPipeline call stopped at the first step of its second
\* cycle, after the steps of the first cycle were applied
C19_Witness ==
  /\ IsTP(variant) /\ pc = "raised" /\ error.check = "label_mismatch"
  /\ applied >= 1

\* C20: construction applies no transform and produces no history or result:
\* before the first call nothing has been applied, the constructor's step
\* leaves the locals of execute_generation untouched, and a transform is
\* applied only by a statement of the inner loop of a call.
C20_ConstructionRunsNothing ==
  /\ [](pc \in {"new", "idle", "rejected"} =>
          /\ applied = 0
          /\ history = <<>>
          /\ current_code = <<>>
          /\ result = NoResult)
  /\ [][ /\ pc = "new" => UNCHANGED <<applied, localVars, result>>
         /\ applied' > applied => (pc = "inner" /\ pc' = "inner")
     ]_vars

\* an engine built from a three-step chain and not yet called
C20_Witness ==
  /\ pc = "idle" /\ Len(chain) = 3 /\ chain = transformations

\* C21 (as claimed): in OuroborosCompiler the label mismatch is raised only
\* at the first step of the first cycle, that is, before any step of the call
\* has been applied.
C21_Claim ==
  (IsOC(variant) /\ pc = "raised" /\ error.check = "label_mismatch") =>
    applied = 0

\* the fields of a result the TransformationPipeline variants are compared on
Observed(r) ==
  [cycles_run |-> r.cycles_run, final_language |-> r.final_language,
   successful_closure |-> r.successful_closure,
   transformation_history |-> r.transformation_history]

\* C22 (as claimed): the three TransformationPipeline variants accept and
\* reject the same chains, and on an accepted chain every one of them returns
\* the cycles_run, final_language, successful_closure and history that the
\* variant at hand returns for the same text and budget.
C22_Claim ==
  IsTP(variant) =>
    /\ pc \in {"idle", "rejected"} =>
         \A v \in {"TP1", "TP2", "TP3"} :
           (Constructor(v, transformations) = NoError) <=> (pc = "idle")
    /\ pc = "done" =>
         \A v \in {"TP1", "TP2", "TP3"} :
           LET r == FrameRun(v, chain, FrameCall(initial_code, max_cycles))
           IN /\ r.pc = "done"
              /\ Observed(r.result) = Observed(result)

\* C23: a TransformationPipeline call with max_cycles >= 1 runs exactly one
\* cycle and reports closure: no second cycle is entered, the post-cycle check
\* always finds the start label, and the loop is never left by exhaustion.
C23_ExactlyOneCycle ==
  IsTP(variant) =>
    /\ Running => cycle_num <= 1
    /\ (pc = "inner" /\ step_index = Len(chain)) => current_language = START_LANG
    /\ (pc = "return" /\ max_cycles >= 1) =>
         (cycle_num = 1 /\ current_language = START_LANG)
    /\ (pc = "done" /\ max_cycles >= 1) =>
         /\ result.cycles_run = 1
         /\ result.successful_closure = TRUE
         /\ applied = Len(chain)

\* a call with a budget of two cycles that returned after one
C23_Witness ==
  /\ IsTP(variant) /\ pc = "done" /\ max_cycles = 2
  /\ result.cycles_run = 1 /\ Len(chain) = 2

\* C24: the TransformationPipeline constructor builds the engine exactly when
\* the list is non-empty, starts at the start label, is contiguous and ends
\* at the start label.
C24_AcceptsExactlyClosedChains ==
  (IsTP(variant) /\ pc # "new") =>
    LET t == transformations
    IN (pc # "rejected") <=>
         /\ t # <<>>
         /\ t[1].input_lang = START_LANG
         /\ \A i \in 1..(Len(t) - 1) : t[i].output_lang = t[i + 1].input_lang
         /\ t[Len(t)].output_lang = START_LANG

\* the one-step chain (start, start, f) built into an engine
C24_Witness ==
  /\ IsTP(variant) /\ pc = "idle" /\ Len(chain) = 1
  /\ chain[1].input_lang = START_LANG /\ chain[1].output_lang = START_LANG

\* C25: no statement of execute_generation changes the engine: from
\* construction on, chain and chain_length stay what the constructor set,
\* whether the call returns or raises.
C25_EngineUnchanged ==
  /\ [](pc \notin {"new", "rejected"} =>
          /\ chain = transformations
          /\ IsTP(variant) => chain_length = Len(transformations))
  /\ [][ pc \notin {"new", "rejected"} =>
           (chain' = chain /\ chain_length' = chain_length) ]_vars

\* a second call on the same engine has ended, by return or by raise
C25_Witness ==
  /\ later /\ pc \in {"done", "raised"} /\ Len(chain) = 2
  /\ chain_length = (IF IsTP(variant) THEN 2 ELSE 0)

\* increment calls that have written their count, over threads 1..n
RECURSIVE Written(_)
Written(n) ==
  IF n = 0 THEN 0
  ELSE Written(n - 1) + (perThread - remaining[n])
       + (IF tpc[n] = "release" THEN 1 ELSE 0)

\* C26: no increment is lost and the lock is always given back: count is the
\* number of increments written so far, get_value returns the number of
\* increment calls made, the lock is held exactly by the one thread inside a
\* with block, and every run ends with all calls returned and the lock free.
C26_NoLostUpdate ==
  /\ [](/\ count = Written(NumThreads)
        /\ \A t \in Threads : (lock = t) <=> (tpc[t] \in {"load", "store", "release"})
        /\ (lock = MainThread) <=> (mpc \in {"read", "release"})
        /\ mpc \in {"release", "done"} => got = NumThreads * perThread
        /\ mpc = "done" => lock = Unlocked)
  /\ <>(mpc = "done")

\* get_value has returned after every thread made MaxIncs increments
C26_Witness ==
  /\ mpc = "done" /\ perThread = MaxIncs
  /\ got = NumThreads * MaxIncs /\ lock = Unlocked

\* C27: fetch_data makes at most MAX_RETRIES requests; it returns the
\* response of the first request that succeeds and requests nothing after it;
\* before request k + 1 it has slept once after each of the k failures, the
\* wait after failed attempt a being INITIAL_BACKOFF * 2^a plus a jitter
\* below 0.5 s; the failure of the last attempt is re-raised with no wait.
C27_BoundedRetries ==
  /\ [](/\ made <= MAX_RETRIES
        /\ Len(slept) <= MAX_RETRIES - 1
        /\ \A k \in 1..Len(slept) :
             /\ slept[k] >= INITIAL_BACKOFF * (2 ^ (k - 1))
             /\ slept[k] < INITIAL_BACKOFF * (2 ^ (k - 1)) + JitterBelow
        /\ apc = "request" => (made = attempt /\ Len(slept) = attempt)
        /\ apc = "failed" => (made = attempt + 1 /\ Len(slept) = attempt)
        /\ apc = "returned" =>
             (response = attempt /\ made = attempt + 1 /\ Len(slept) = attempt
                /\ exc = -1)
        /\ apc = "raised" =>
             (exc = MAX_RETRIES - 1 /\ made = MAX_RETRIES
                /\ Len(slept) = MAX_RETRIES - 1 /\ response = -1))
  /\ [][ /\ apc \in {"returned", "raised"} => UNCHANGED apiVars
         /\ made' # made => (made' = made + 1 /\ apc = "request")
     ]_vars

\* the third request succeeded after two failures and two waits
C27_Witness ==
  /\ apc = "returned" /\ response = 2 /\ made = 3 /\ Len(slept) = 2

\* C28: at most one runCycle call is processing a file, and the flag is set
\* exactly while one is; a call made meanwhile changes nothing of the queue
\* state; the files are processed once each in queue order, whatever their
\* status, and the index is the number of files processed.
C28_OneCycleAtATime ==
  /\ [](/\ Len(inflight) <= 1
        /\ isProcessing <=> (Len(inflight) = 1)
        /\ currentIndex = Len(processed)
        /\ currentIndex <= queueLen
        /\ \A k \in 1..Len(processed) : processed[k].file = k
        /\ \A i \in 1..Len(inflight) : inflight[i].target = currentIndex + 1)
  /\ [][ /\ isProcessing =>
              \/ UNCHANGED <<isProcessing, currentIndex, inflight, processed>>
              \/ (Len(inflight') = 1 /\ inflight'[1].target = inflight[1].target
                    /\ UNCHANGED <<isProcessing, currentIndex, processed>>)
              \/ (~isProcessing' /\ inflight' = <<>>
                    /\ currentIndex' = currentIndex + 1
                    /\ Len(processed') = Len(processed) + 1)
         /\ currentIndex' # currentIndex => isProcessing
     ]_vars

\* a timer call returned early while the second file was being processed
C28_Witness ==
  /\ lastRun = "returned early" /\ isProcessing
  /\ Len(processed) = 1 /\ processed[1].status = "threw"
  /\ inflight[1].target = 2

\* C29: cleanup_expired never fails when one thread uses the cache; nothing
\* is deleted while the cache is iterated; when the second loop is done the
\* cache is the cache of the time of the call without exactly the entries
\* more than EXPIRY seconds older than that time; add(key, value) stores
\* value with the current time under key and touches no other key.
C29_CleanupExact ==
  /\ [](/\ cpc # "raised"
        /\ cpc = "scan" => cache = snapshot
        /\ (cpc = "delete" /\ expired_keys = <<>>) =>
             \A k \in Keys :
               cache[k] =
                 (IF snapshot[k] # Absent
                       /\ current_time - snapshot[k].timestamp > EXPIRY
                  THEN Absent ELSE snapshot[k]))
  /\ [][ (cpc = "idle" /\ cache' # cache) =>
           \E k \in Keys :
             /\ cache'[k] # Absent
             /\ cache'[k].timestamp = now
             /\ \A j \in Keys \ {k} : cache'[j] = cache[j]
     ]_vars

\* a cleanup that removed an entry 301 seconds old and kept one 300 seconds old
C29_Witness ==
  /\ cpc = "delete" /\ expired_keys = <<>>
  /\ \E k, j \in Keys :
       /\ snapshot[k] # Absent /\ current_time - snapshot[k].timestamp = EXPIRY + 1
       /\ cache[k] = Absent
       /\ snapshot[j] # Absent /\ current_time - snapshot[j].timestamp = EXPIRY
       /\ cache[j] = snapshot[j]

\* three values in ascending order
Ascending(a, b, c) ==
  LET lo == IF a <= b /\ a <= c THEN a ELSE IF b <= c THEN b ELSE c
      hi == IF a >= b /\ a >= c THEN a ELSE IF b >= c THEN b ELSE c
  IN <<lo, a + b + c - lo - hi, hi>>

\* the triplets of values at three distinct positions of q that sum to zero
ZeroTriplets(q) ==
  {Ascending(q[a], q[b], q[c]) :
     <<a, b, c>> \in {t \in (DOMAIN q) \X (DOMAIN q) \X (DOMAIN q) :
                       t[1] < t[2] /\ t[2] < t[3]
                         /\ q[t[1]] + q[t[2]] + q[t[3]] = 0}}

\* C30: the list find_triplets_sum_zero returns holds every triplet of
\* values at three distinct positions of the given list that sums to zero,
\* nothing else, and no triplet twice.
C30_AllTripletsOnce ==
  fpc = "done" =>
    /\ {triplets[k] : k \in 1..Len(triplets)} = ZeroTriplets(given)
    /\ \A j, k \in 1..Len(triplets) : j # k => triplets[j] # triplets[k]

\* a list whose positions 1, 2, 3 and 2, 3, 4 hold the same three non-zero
\* values summing to zero: the triplet is returned once
C30_Witness ==
  /\ fpc = "done" /\ Len(given) = 4 /\ Len(triplets) = 1
  /\ given[1] = given[4] /\ given[1] # 0
  /\ given[1] + given[2] + given[3] = 0

=============================================================================
